---- MODULE Spec2Model ----
(***************************************************************************)
(* Model of the DisciplrVault Soroban contract (src/src/lib.rs).           *)
(*                                                                         *)
(* State: the contract's instance storage, the ledger timestamp, the       *)
(* events and the result of the most recent invocation, and the asset      *)
(* transfers the contract has issued.  One action per contract function.   *)
(* A panic aborts the invocation: nothing it wrote or published survives.  *)
(* Every invocation is authorised by the address it passes to              *)
(* require_auth, as under mock_all_auths in the repository's tests.        *)
(***************************************************************************)
EXTENDS Integers, Sequences, FiniteSets, TLC

(* ---------------------------- bounds ----------------------------------- *)
\* the ledger closes at most MaxTime times
MaxTime == 2

\* the fixture the tests build: its id, amount and window
TestVaultId == 1
TestAmount == 1000
TestStart == 1000
TestEnd == 2000

\* ledger timestamps: 0, where a fresh Env starts, and the later closes, one
\* every TestStart, so that the fixture's window bounds are among them
Times == {t * TestStart : t \in 0..MaxTime}
\* the addresses that invoke the contract, create vaults and verify them
Addresses == {"alice", "bob"}
\* the destination addresses a vault names
SuccessDestinations == {"carol"}
FailureDestinations == {"dave"}
Amounts == {0, TestAmount}
Hashes == {"h0"}
\* 0 is the id create_vault returns, 1 the id the tests store under
VaultIds == {0, TestVaultId}
TestVaultIds == {TestVaultId}

(* ---------------------------- data types ------------------------------- *)
VaultStatus == {"Active", "Completed", "Failed", "Cancelled"}

None == [some |-> FALSE]
Some(x) == [some |-> TRUE, val |-> x]

OptAddresses == {None} \cup {Some(a) : a \in Addresses}

ProductivityVault ==
    [creator : Addresses,
     amount : Amounts,
     start_timestamp : Times,
     end_timestamp : Times,
     milestone_hash : Hashes,
     verifier : OptAddresses,
     success_destination : SuccessDestinations,
     failure_destination : FailureDestinations,
     status : VaultStatus]

\* the tests' fixture: the id, the creator and the vault it returns for a
\* status; creator, verifier, success_dest and failure_dest are the four
\* addresses it generates
create_test_vault(creator, verifier, success_dest, failure_dest, status) ==
    LET vault == [creator |-> creator,
                  amount |-> TestAmount,
                  start_timestamp |-> TestStart,
                  end_timestamp |-> TestEnd,
                  milestone_hash |-> "h0",
                  verifier |-> Some(verifier),
                  success_destination |-> success_dest,
                  failure_destination |-> failure_dest,
                  status |-> status]
        vault_id == TestVaultId
    IN <<vault_id, creator, vault>>

\* the vaults the fixture builds over the addresses of the model
FixtureVaults ==
    UNION {{create_test_vault(c, v, sd, fd, s)[3] :
               v \in Addresses \ {c}, sd \in SuccessDestinations,
               fd \in FailureDestinations, s \in VaultStatus} :
           c \in Addresses}

\* the vaults handed to set_vault_state_test: the fixture's, and the same
\* with any verifier or none
TestVaults ==
    {[f EXCEPT !.verifier = o] : f \in FixtureVaults, o \in OptAddresses}

(* ---------------------------- results ---------------------------------- *)
RetBool(b) == [kind |-> "bool", val |-> b]
RetU32(n) == [kind |-> "u32", val |-> n]
RetVault(o) == [kind |-> "vault", val |-> o]
RetUnit == [kind |-> "unit"]
Panic(msg) == [kind |-> "panic", msg |-> msg]

Event(topic, vault_id, data) == [topic |-> topic, vault_id |-> vault_id, data |-> data]
Unit == [unit |-> TRUE]

VARIABLES storage, now, last, events, transfers, issued

vars == <<storage, now, last, events, transfers, issued>>

NoCall == [op |-> "none"]

(* ---------------------------- contract functions ----------------------- *)
\* env.storage().instance().get(&vault_id)
get_vault_state(store, vault_id) == store[vault_id]

\* env.storage().instance().set(&vault_id, &vault)
set_vault_state_test(store, vault_id, vault) ==
    [store EXCEPT ![vault_id] = Some(vault)]

\* the record built by create_vault, the constant id it returns and the
\* event it publishes; nothing is written to storage
create_vault(creator, amount, start_timestamp, end_timestamp, milestone_hash, verifier, success_destination, failure_destination) ==
    LET vault == [creator |-> creator,
                  amount |-> amount,
                  start_timestamp |-> start_timestamp,
                  end_timestamp |-> end_timestamp,
                  milestone_hash |-> milestone_hash,
                  verifier |-> verifier,
                  success_destination |-> success_destination,
                  failure_destination |-> failure_destination,
                  status |-> "Active"]
        vault_id == 0
    IN [result |-> RetU32(vault_id),
        events |-> <<Event("vault_created", vault_id, vault)>>]

\* publishes milestone_validated and returns true, whatever the vault
validate_milestone(store, vault_id) ==
    [result |-> RetBool(TRUE),
     events |-> <<Event("milestone_validated", vault_id, Unit)>>]

release_funds(store, vault_id) ==
    [result |-> RetBool(TRUE), events |-> <<>>]

redirect_funds(store, vault_id) ==
    [result |-> RetBool(TRUE), events |-> <<>>]

\* cancel_vault written as the other transitions are: no check at all
cancel_vault_unchecked(store, vault_id, creator) ==
    [result |-> RetBool(TRUE),
     events |-> <<Event("vault_cancelled", vault_id, Unit)>>]

\* cancel_vault without the status check
cancel_vault_no_status_check(store, vault_id, creator) ==
    LET vault_opt == get_vault_state(store, vault_id)
    IN IF vault_opt.some
       THEN IF vault_opt.val.creator # creator
            THEN [result |-> Panic("Only vault creator can cancel"), events |-> <<>>]
            ELSE [result |-> RetBool(TRUE),
                  events |-> <<Event("vault_cancelled", vault_id, Unit)>>]
       ELSE [result |-> Panic("Vault not found"), events |-> <<>>]

\* cancel_vault without the creator check
cancel_vault_no_creator_check(store, vault_id, creator) ==
    LET vault_opt == get_vault_state(store, vault_id)
    IN IF vault_opt.some
       THEN IF vault_opt.val.status # "Active"
            THEN [result |-> Panic("Only Active vaults can be cancelled"), events |-> <<>>]
            ELSE [result |-> RetBool(TRUE),
                  events |-> <<Event("vault_cancelled", vault_id, Unit)>>]
       ELSE [result |-> Panic("Vault not found"), events |-> <<>>]

\* cancel_vault returning false for a missing vault instead of panicking
cancel_vault_missing_returns_false(store, vault_id, creator) ==
    LET vault_opt == get_vault_state(store, vault_id)
    IN IF vault_opt.some
       THEN LET vault == vault_opt.val
            IN IF vault.creator # creator
               THEN [result |-> Panic("Only vault creator can cancel"), events |-> <<>>]
               ELSE IF vault.status # "Active"
               THEN [result |-> Panic("Only Active vaults can be cancelled"), events |-> <<>>]
               ELSE [result |-> RetBool(TRUE),
                     events |-> <<Event("vault_cancelled", vault_id, Unit)>>]
       ELSE [result |-> RetBool(FALSE), events |-> <<>>]

\* cancel_vault checking the status before the creator
cancel_vault_status_first(store, vault_id, creator) ==
    LET vault_opt == get_vault_state(store, vault_id)
    IN IF vault_opt.some
       THEN LET vault == vault_opt.val
            IN IF vault.status # "Active"
               THEN [result |-> Panic("Only Active vaults can be cancelled"), events |-> <<>>]
               ELSE IF vault.creator # creator
               THEN [result |-> Panic("Only vault creator can cancel"), events |-> <<>>]
               ELSE [result |-> RetBool(TRUE),
                     events |-> <<Event("vault_cancelled", vault_id, Unit)>>]
       ELSE [result |-> Panic("Vault not found"), events |-> <<>>]

cancel_vault(store, vault_id, creator) ==
    LET vault_opt == get_vault_state(store, vault_id)
    IN IF vault_opt.some
       THEN LET vault == vault_opt.val
            IN IF vault.creator # creator
               THEN [result |-> Panic("Only vault creator can cancel"), events |-> <<>>]
               ELSE IF vault.status # "Active"
               THEN [result |-> Panic("Only Active vaults can be cancelled"), events |-> <<>>]
               ELSE [result |-> RetBool(TRUE),
                     events |-> <<Event("vault_cancelled", vault_id, Unit)>>]
       ELSE [result |-> Panic("Vault not found"), events |-> <<>>]

(* ---------------------------- actions ---------------------------------- *)
Init ==
    /\ storage = [id \in VaultIds |-> None]
    /\ now = 0
    /\ last = NoCall
    /\ events = <<>>
    /\ transfers = <<>>
    /\ issued = {}

\* create_vault persisting the vault it builds under the id it returns
CreateVault_persists ==
    \E creator \in Addresses, amount \in Amounts,
       start_timestamp \in Times, end_timestamp \in Times,
       milestone_hash \in Hashes, verifier \in OptAddresses,
       success_destination \in SuccessDestinations,
       failure_destination \in FailureDestinations :
       LET r == create_vault(creator, amount, start_timestamp, end_timestamp,
                             milestone_hash, verifier, success_destination,
                             failure_destination)
       IN /\ last' = [op |-> "create_vault", caller |-> creator,
                      args |-> [creator |-> creator, amount |-> amount,
                                start_timestamp |-> start_timestamp,
                                end_timestamp |-> end_timestamp,
                                milestone_hash |-> milestone_hash,
                                verifier |-> verifier,
                                success_destination |-> success_destination,
                                failure_destination |-> failure_destination],
                      result |-> r.result]
          /\ events' = r.events
          /\ issued' = issued \cup {r.result.val}
          /\ storage' = [storage EXCEPT ![r.result.val] = Some(r.events[1].data)]
          /\ UNCHANGED <<now, transfers>>

CreateVault ==
    \E creator \in Addresses, amount \in Amounts,
       start_timestamp \in Times, end_timestamp \in Times,
       milestone_hash \in Hashes, verifier \in OptAddresses,
       success_destination \in SuccessDestinations,
       failure_destination \in FailureDestinations :
       LET r == create_vault(creator, amount, start_timestamp, end_timestamp,
                             milestone_hash, verifier, success_destination,
                             failure_destination)
       IN /\ last' = [op |-> "create_vault", caller |-> creator,
                      args |-> [creator |-> creator, amount |-> amount,
                                start_timestamp |-> start_timestamp,
                                end_timestamp |-> end_timestamp,
                                milestone_hash |-> milestone_hash,
                                verifier |-> verifier,
                                success_destination |-> success_destination,
                                failure_destination |-> failure_destination],
                      result |-> r.result]
          /\ events' = r.events
          /\ issued' = issued \cup {r.result.val}
          /\ UNCHANGED <<storage, now, transfers>>

ValidateMilestone ==
    \E vault_id \in VaultIds, caller \in Addresses :
       LET r == validate_milestone(storage, vault_id)
       IN /\ last' = [op |-> "validate_milestone", vault_id |-> vault_id,
                      caller |-> caller, result |-> r.result]
          /\ events' = r.events
          /\ UNCHANGED <<storage, now, transfers, issued>>

ReleaseFunds ==
    \E vault_id \in VaultIds, caller \in Addresses :
       LET r == release_funds(storage, vault_id)
       IN /\ last' = [op |-> "release_funds", vault_id |-> vault_id,
                      caller |-> caller, result |-> r.result]
          /\ events' = r.events
          /\ UNCHANGED <<storage, now, transfers, issued>>

RedirectFunds ==
    \E vault_id \in VaultIds, caller \in Addresses :
       LET r == redirect_funds(storage, vault_id)
       IN /\ last' = [op |-> "redirect_funds", vault_id |-> vault_id,
                      caller |-> caller, result |-> r.result]
          /\ events' = r.events
          /\ UNCHANGED <<storage, now, transfers, issued>>

\* cancel_vault marking the vault Cancelled and clearing the amount it refunds
CancelVault_clears_amount ==
    \E vault_id \in VaultIds, creator \in Addresses :
       LET r == cancel_vault(storage, vault_id, creator)
       IN /\ last' = [op |-> "cancel_vault", vault_id |-> vault_id,
                      caller |-> creator, result |-> r.result]
          /\ events' = r.events
          /\ storage' = IF r.result = RetBool(TRUE)
                        THEN [storage EXCEPT ![vault_id] =
                                 Some([storage[vault_id].val EXCEPT
                                          !.status = "Cancelled", !.amount = 0])]
                        ELSE storage
          /\ UNCHANGED <<now, transfers, issued>>

CancelVault ==
    \E vault_id \in VaultIds, creator \in Addresses :
       LET r == cancel_vault(storage, vault_id, creator)
       IN /\ last' = [op |-> "cancel_vault", vault_id |-> vault_id,
                      caller |-> creator, result |-> r.result]
          /\ events' = r.events
          /\ UNCHANGED <<storage, now, transfers, issued>>

GetVaultState ==
    \E vault_id \in VaultIds :
       /\ last' = [op |-> "get_vault_state", vault_id |-> vault_id,
                   result |-> RetVault(get_vault_state(storage, vault_id))]
       /\ events' = <<>>
       /\ UNCHANGED <<storage, now, transfers, issued>>

SetVaultStateTest ==
    \E vault_id \in TestVaultIds, vault \in TestVaults :
       /\ storage' = set_vault_state_test(storage, vault_id, vault)
       /\ last' = [op |-> "set_vault_state_test", vault_id |-> vault_id,
                   result |-> RetUnit]
       /\ events' = <<>>
       /\ UNCHANGED <<now, transfers, issued>>

\* the ledger closes: the timestamp the host supplies to later calls advances
AdvanceLedger ==
    /\ now + TestStart \in Times
    /\ now' = now + TestStart
    /\ last' = NoCall
    /\ events' = <<>>
    /\ UNCHANGED <<storage, transfers, issued>>

Next ==
    \/ CreateVault
    \/ ValidateMilestone
    \/ ReleaseFunds
    \/ RedirectFunds
    \/ CancelVault
    \/ GetVaultState
    \/ SetVaultStateTest
    \/ AdvanceLedger

Spec == Init /\ [][Next]_vars

(* ---------------------------- properties ------------------------------- *)
Terminal == VaultStatus \ {"Active"}

Succeeded(call) == call.result = RetBool(TRUE)

\* a transfer of amount to an address appears among the issued transfers
Transferred(to, amount) ==
    \E i \in 1..Len(transfers) : transfers[i] = [to |-> to, amount |-> amount]

\* C1: cancel_vault(vault_id, caller) returns true exactly when a record is
\* stored under vault_id, it is Active and caller is its creator; otherwise it
\* panics with the reason of a precondition that is violated.
C1_CancelSucceedsIff ==
    [][last'.op = "cancel_vault" =>
         LET rec == storage[last'.vault_id]
             ok == rec.some /\ rec.val.status = "Active"
                            /\ rec.val.creator = last'.caller
         IN /\ Succeeded(last') <=> ok
            /\ ~ok => /\ last'.result.kind = "panic"
                      /\ last'.result.msg = "Vault not found" <=> ~rec.some
                      /\ last'.result.msg = "Only vault creator can cancel"
                            => rec.val.creator # last'.caller
                      /\ last'.result.msg = "Only Active vaults can be cancelled"
                            => rec.val.status # "Active"
                      /\ last'.result.msg \in
                            {"Vault not found", "Only vault creator can cancel",
                             "Only Active vaults can be cancelled"}]_vars

C1_Witness ==
    /\ last.op = "cancel_vault"
    /\ Succeeded(last)
    /\ storage[last.vault_id].some
    /\ storage[last.vault_id].val.status = "Active"
    /\ storage[last.vault_id].val.creator = last.caller

\* C2: cancel_vault by the creator of a Completed, Failed or Cancelled vault
\* panics with "Only Active vaults can be cancelled" and the stored record is
\* unchanged.
C2_CancelTerminalFails ==
    [][(/\ last'.op = "cancel_vault"
        /\ storage[last'.vault_id].some
        /\ storage[last'.vault_id].val.status \in Terminal
        /\ storage[last'.vault_id].val.creator = last'.caller)
       => /\ last'.result = Panic("Only Active vaults can be cancelled")
          /\ storage' = storage
          /\ transfers' = transfers]_vars

C2_Witness ==
    /\ last.op = "cancel_vault"
    /\ last.result = Panic("Only Active vaults can be cancelled")
    /\ storage[last.vault_id].some
    /\ storage[last.vault_id].val.status = "Completed"
    /\ storage[last.vault_id].val.creator = last.caller

\* C3: cancel_vault on an Active vault by a caller other than its creator
\* panics with "Only vault creator can cancel", leaves the record Active and
\* unchanged, and a cancel_vault by the creator then succeeds.
C3_CancelNonCreatorFails ==
    [][(/\ last'.op = "cancel_vault"
        /\ storage[last'.vault_id].some
        /\ storage[last'.vault_id].val.status = "Active"
        /\ storage[last'.vault_id].val.creator # last'.caller)
       => /\ last'.result = Panic("Only vault creator can cancel")
          /\ storage' = storage
          /\ storage'[last'.vault_id].val.status = "Active"
          /\ Succeeded(cancel_vault(storage', last'.vault_id,
                                    storage'[last'.vault_id].val.creator))]_vars

C3_Witness ==
    /\ last.op = "cancel_vault"
    /\ last.result = Panic("Only vault creator can cancel")
    /\ storage[last.vault_id].some
    /\ storage[last.vault_id].val.status = "Active"
    /\ storage[last.vault_id].val.creator # last.caller

\* C4: cancel_vault on an id with no stored record panics with
\* "Vault not found" for any caller and stores no record under that id.
C4_CancelMissingFails ==
    [][(last'.op = "cancel_vault" /\ ~storage[last'.vault_id].some)
       => /\ last'.result = Panic("Vault not found")
          /\ ~storage'[last'.vault_id].some]_vars

C4_Witness ==
    /\ last.op = "cancel_vault"
    /\ last.result = Panic("Vault not found")
    /\ ~storage[last.vault_id].some

\* C5: after a cancel_vault that succeeds, the stored vault is Cancelled and
\* its amount has been transferred to its creator.
C5_CancelSetsCancelledAndRefunds ==
    (last.op = "cancel_vault" /\ Succeeded(last))
    => /\ storage[last.vault_id].some
       /\ storage[last.vault_id].val.status = "Cancelled"
       /\ Transferred(storage[last.vault_id].val.creator,
                      storage[last.vault_id].val.amount)

\* C6: right after create_vault, get_vault_state on the returned id yields a
\* record with the inputs of create_vault and status Active.
C6_CreateThenGetRoundTrip ==
    (last.op = "create_vault" /\ last.result.kind = "u32")
    => get_vault_state(storage, last.result.val) =
          Some([creator |-> last.args.creator,
                amount |-> last.args.amount,
                start_timestamp |-> last.args.start_timestamp,
                end_timestamp |-> last.args.end_timestamp,
                milestone_hash |-> last.args.milestone_hash,
                verifier |-> last.args.verifier,
                success_destination |-> last.args.success_destination,
                failure_destination |-> last.args.failure_destination,
                status |-> "Active"])

\* C7: every create_vault returns an id that no earlier create_vault returned.
C7_CreateReturnsFreshId ==
    [][(last'.op = "create_vault" /\ last'.result.kind = "u32")
       => last'.result.val \notin issued]_vars

\* C8: validate_milestone by a caller who is not the vault's verifier fails,
\* the vault stays Active and no funds move.
C8_ValidateRequiresVerifier ==
    [][(/\ last'.op = "validate_milestone"
        /\ storage[last'.vault_id].some
        /\ storage[last'.vault_id].val.status = "Active"
        /\ storage[last'.vault_id].val.verifier # Some(last'.caller))
       => /\ ~Succeeded(last')
          /\ storage' = storage
          /\ transfers' = transfers]_vars

\* C9: when validate_milestone returns true for a stored vault, the vault is
\* Completed after that call and its amount has been transferred to
\* success_destination.
C9_ValidateCompletesAndReleases ==
    (/\ last.op = "validate_milestone"
     /\ Succeeded(last)
     /\ storage[last.vault_id].some)
    => /\ storage[last.vault_id].val.status = "Completed"
       /\ Transferred(storage[last.vault_id].val.success_destination,
                      storage[last.vault_id].val.amount)

\* C10: validate_milestone does not succeed on a vault whose end_timestamp
\* is at or before the current ledger time.
C10_ValidateRejectsAfterDeadline ==
    [][(/\ last'.op = "validate_milestone"
        /\ storage[last'.vault_id].some
        /\ now >= storage[last'.vault_id].val.end_timestamp)
       => ~Succeeded(last')]_vars

Transitions == {"validate_milestone", "release_funds", "redirect_funds", "cancel_vault"}

\* the address under which the contract holds the amounts it has pulled
Custody == "contract"

\* C11: on a stored Active vault, redirect_funds fails while the ledger time
\* is before end_timestamp and succeeds from end_timestamp on; on success the
\* vault becomes Failed and its amount is transferred to failure_destination.
C11_RedirectOnlyAfterDeadline ==
    [][(/\ last'.op = "redirect_funds"
        /\ storage[last'.vault_id].some
        /\ storage[last'.vault_id].val.status = "Active")
       => LET v == storage[last'.vault_id].val
          IN /\ now < v.end_timestamp => ~Succeeded(last') /\ storage' = storage
             /\ now >= v.end_timestamp =>
                   /\ Succeeded(last')
                   /\ storage'[last'.vault_id].val.status = "Failed"
                   /\ \E i \in 1..Len(transfers') :
                         transfers'[i] = [to |-> v.failure_destination,
                                          amount |-> v.amount]]_vars

\* C12: a redirect_funds that follows a successful redirect_funds on the same
\* vault fails, whoever calls it.
C12_RedirectIdempotent ==
    [][(/\ last.op = "redirect_funds"
        /\ Succeeded(last)
        /\ last'.op = "redirect_funds"
        /\ last'.vault_id = last.vault_id
        /\ storage[last.vault_id].some)
       => /\ last'.result.kind = "panic"
          /\ transfers' = transfers]_vars

\* C13: on a stored vault that is Completed, Failed or Cancelled, every
\* validate_milestone, release_funds, redirect_funds and cancel_vault fails
\* and leaves the record unchanged.
C13_TerminalAbsorbing ==
    [][(/\ last'.op \in Transitions
        /\ storage[last'.vault_id].some
        /\ storage[last'.vault_id].val.status \in Terminal)
       => /\ last'.result.kind = "panic"
          /\ storage' = storage]_vars

\* C14: a vault that create_vault has just created is Active and its amount
\* is held in custody: it has been pulled in and not transferred out.
C14_ActiveIffInCustody ==
    (last.op = "create_vault" /\ last.result.kind = "u32")
    => /\ Len(events) = 1
       /\ events[1].data.status = "Active"
       /\ Transferred(Custody, last.args.amount)

\* C15: create_vault with amount <= 0 or start_timestamp >= end_timestamp
\* fails and publishes no creation event.
C15_CreateRejectsInvalidInput ==
    (/\ last.op = "create_vault"
     /\ \/ last.args.amount <= 0
        \/ last.args.start_timestamp >= last.args.end_timestamp)
    => /\ last.result.kind = "panic"
       /\ events = <<>>

\* C16: validate_milestone never succeeds on a stored vault that has no
\* verifier.
C16_NoVerifierNoValidation ==
    [][(/\ last'.op = "validate_milestone"
        /\ storage[last'.vault_id].some
        /\ storage[last'.vault_id].val.verifier = None)
       => ~Succeeded(last')]_vars

\* C17: once one of validate_milestone, release_funds, redirect_funds and
\* cancel_vault has succeeded on a stored vault, the next such call on the
\* same vault does not succeed.
C17_AtMostOneTransitionSucceeds ==
    [][(/\ last.op \in Transitions
        /\ Succeeded(last)
        /\ storage[last.vault_id].some
        /\ last'.op \in Transitions
        /\ last'.vault_id = last.vault_id)
       => ~Succeeded(last')]_vars

PublicOps == Transitions \cup {"create_vault", "get_vault_state"}

SameButStatus(a, b) == [a EXCEPT !.status = b.status] = b

\* C18: validate_milestone, release_funds, redirect_funds and cancel_vault
\* keep every stored record and leave its creator, amount, timestamps,
\* milestone hash, verifier and destinations unchanged.
C18_TransitionsKeepFields ==
    [][last'.op \in Transitions =>
         \A id \in VaultIds :
            storage[id].some =>
               /\ storage'[id].some
               /\ SameButStatus(storage[id].val, storage'[id].val)]_vars

C18_Witness ==
    /\ last.op = "validate_milestone"
    /\ Succeeded(last)
    /\ storage[last.vault_id].some
    /\ storage[last.vault_id].val.amount > 0

\* C19: cancel_vault checks existence, then the creator, then the status: a
\* caller who is not the creator of a vault that is not Active gets "Only
\* vault creator can cancel", and with no record the reason is "Vault not
\* found" whatever the caller.
C19_CancelCheckOrder ==
    [][last'.op = "cancel_vault" =>
         LET rec == storage[last'.vault_id]
         IN /\ ~rec.some => last'.result = Panic("Vault not found")
            /\ (/\ rec.some
                /\ rec.val.creator # last'.caller
                /\ rec.val.status # "Active")
               => last'.result = Panic("Only vault creator can cancel")]_vars

C19_Witness ==
    /\ last.op = "cancel_vault"
    /\ last.result = Panic("Only vault creator can cancel")
    /\ storage[last.vault_id].some
    /\ storage[last.vault_id].val.creator # last.caller
    /\ storage[last.vault_id].val.status \in Terminal

\* C20: create_vault, validate_milestone, release_funds, redirect_funds,
\* cancel_vault and get_vault_state leave the result of get_vault_state
\* unchanged for every id.
C20_PublicOpsDoNotWriteStore ==
    [][last'.op \in PublicOps =>
         \A id \in VaultIds :
            get_vault_state(storage', id) = get_vault_state(storage, id)]_vars

C20_Witness ==
    /\ last.op = "create_vault"
    /\ last.result.kind = "u32"
    /\ ~get_vault_state(storage, last.result.val).some
    /\ \E id \in VaultIds : get_vault_state(storage, id).some

====
